---- MODULE Spec2Model ----
(***************************************************************************)
(* State-machine model of the client pages of the construction-document   *)
(* application: the Procore OAuth callback page, the projects dashboard,   *)
(* the RFI page and the chatbot page.  Each page is a React component: its *)
(* state is its useState cells, and one action is one run of a handler     *)
(* between two suspension points (an await, a timer, a user event).  State *)
(* updates made in one such run are committed together.                    *)
(***************************************************************************)
EXTENDS Integers, Sequences, FiniteSets, TLC

VARIABLES
    \* ---- OAuth callback page (CallbackContent) ----
    cbUrl,          \* the popup's query parameters: code, error, state
    cbPc,           \* position of handleCallback
    cbStatus,       \* 'loading' | 'success' | 'error'
    cbMessage,      \* which message text is shown
    cbRequests,     \* requests made to /procore/oauth/callback, in order
    cbTimer,        \* the 2000 ms window.close timer is armed
    cbWindow,       \* "open" | "auto" (closed by the timer) | "user"
    \* ---- projects dashboard (ProjectsDashboard) ----
    projects,           \* Project[]: records [id, documents]
    newProjectName,
    dialogOpen,
    deleteDialogOpen,
    projectToDelete,    \* Project | null, as <<>> or <<project>>
    uploadDialogOpen,
    projectToUpload,    \* Project | null, as <<>> or <<project>>
    selectedFile,       \* File | null, as <<>> or <<file>>
    uploading,
    uploadSuccess,
    uploadError,        \* string | null
    dashIsLoading,      \* isLoading
    dashError,          \* error: string | null
    dashFetch,          \* position of the fetchProjects effect
    dashReqs,           \* POST/DELETE requests in flight, with their closures
    dashLast,           \* kind and outcome of the request that settled last
    dashTimers,         \* armed close-dialog timers of uploadFile
    lastChosen,         \* the file of the last selection or drop, and a tick
    dashServer,         \* backend: ids of the projects that exist
    dashNextId,         \* backend: id the next created project gets
    \* ---- RFI page (RFIPage) ----
    rfis,               \* RFI[]: records [id, page]
    rfiLoading,         \* loading
    rfiError,           \* error: string | null
    sheetCodes,         \* the pages sheetCodes has a code for
    exportingRfiId,     \* number | null, as <<>> or <<id>>
    rfiFetch,           \* position of fetchRFIs
    rfiPages,           \* fetchRFIs: page requests of Promise.all in flight
    rfiNewCodes,        \* fetchRFIs: the local newSheetCodes
    rfiLast,            \* outcome of the last GET /api/rfis
    rfiRequests,        \* GET /api/rfis requests issued
    rfiClicks,          \* clicks on Try Again
    rfiExports,         \* handleExportToProcore calls in flight
    \* ---- chatbot page (ChatbotPage) ----
    messages,           \* Message[]: records [sender, content, of]
    inputMessage,
    chatIsLoading,      \* isLoading
    isTyping,
    isStreaming,
    isExecutingTool,
    toolStatus,
    streamingMessage,   \* how many characters the typewriter shows
    openSheets,         \* Sheet[]: records [id, svgContent]
    selectedSheet,      \* Sheet | null, as <<>> or <<sheet>>
    activeSheetId,      \* number | null, as <<>> or <<id>>
    sessionId,          \* string | null, as <<>> or <<id>>
    sheetColumns,       \* the sheet ids sheetColumns has an entry for
    chatInit,           \* position of fetchProjectData
    sessionCalls,       \* startNewChat calls: "pending" until createSession settles
    chatNextSession,    \* backend: id the next session gets
    chatSends,          \* messages handleSendMessage has accepted
    streams,            \* accepted sends whose reply is not yet in messages
    svgFetches,         \* fetchSheetSvgAndAddTab calls in flight
    \* ---- sheet viewer (MultiTabSVGViewer), mounted while openSheets is
    \* not empty ----
    activeTab,          \* index of the active tab, from 0
    viewState,          \* viewStates[S] of the sheet S the zoom actions name
    stageSize,          \* [width, height] of the Konva stage
    zoomAnimations,     \* animateZoomToPosition calls whose frames still run
    zoomActions,        \* zoom actions the viewer has started
    zoomLast,           \* the action whose animation completed last
    editingRfiId,       \* <<>> or <<id>>: the RFI whose editor is open
    editedRfiDescription, \* text of the editor, as its parts between "\n\n"
    isSavingRfi,
    rfiSaves,           \* PATCH /api/rfis/{id} requests in flight
    rfiSaveLast         \* <<>> or the save that ended last, with its outcome

cbVars == <<cbUrl, cbPc, cbStatus, cbMessage, cbRequests, cbTimer, cbWindow>>

dashVars == <<projects, newProjectName, dialogOpen, deleteDialogOpen,
              projectToDelete, uploadDialogOpen, projectToUpload, selectedFile,
              uploading, uploadSuccess, uploadError, dashIsLoading, dashError,
              dashFetch, dashReqs, dashLast, dashTimers, lastChosen,
              dashServer, dashNextId>>

rfiVars == <<rfis, rfiLoading, rfiError, sheetCodes, exportingRfiId, rfiFetch,
             rfiPages, rfiNewCodes, rfiLast, rfiRequests, rfiClicks,
             rfiExports>>

chatVars == <<messages, inputMessage, chatIsLoading, isTyping, isStreaming,
              isExecutingTool, toolStatus, streamingMessage, openSheets,
              selectedSheet, activeSheetId, sessionId, sheetColumns, chatInit,
              sessionCalls, chatNextSession, chatSends, streams, svgFetches>>

viewerVars == <<activeTab>>

zoomVars == <<viewState, stageSize, zoomAnimations, zoomActions, zoomLast>>

saveVars == <<editingRfiId, editedRfiDescription, isSavingRfi, rfiSaves,
              rfiSaveLast>>

vars == <<cbVars, dashVars, rfiVars, chatVars, viewerVars, zoomVars, saveVars>>

\* What the actions of one page leave alone: the other pages.
notCb == <<dashVars, rfiVars, chatVars, viewerVars, zoomVars, saveVars>>
notDash == <<cbVars, rfiVars, chatVars, viewerVars, zoomVars, saveVars>>
notRfi == <<cbVars, dashVars, chatVars, viewerVars, zoomVars, saveVars>>
notChat == <<cbVars, dashVars, rfiVars, viewerVars, zoomVars, saveVars>>
notZoom == <<cbVars, dashVars, rfiVars, chatVars, viewerVars, saveVars>>

\* What the steps of the RFI description editor leave alone: the other
\* pages, and all of the RFI page but rfis.
notSave == <<cbVars, dashVars, chatVars, viewerVars, zoomVars,
             rfiLoading, rfiError, sheetCodes, exportingRfiId, rfiFetch,
             rfiPages, rfiNewCodes, rfiLast, rfiRequests, rfiClicks,
             rfiExports>>

\* What the steps that change the viewer's tabs leave alone.
otherPages == <<cbVars, dashVars, rfiVars, zoomVars, saveVars>>

\* JavaScript null (searchParams.get of a missing parameter, useState(null)).
NULL == "null"

\* JavaScript truthiness of a string-or-null value.
Truthy(s) == s # NULL /\ s # ""

(***************************************************************************)
(*                      OAuth callback page                                *)
(***************************************************************************)

CbCodes == {NULL, "", "c1", "c2"}
CbErrors == {NULL, "", "access_denied"}
CbStates == {NULL, "", "s1"}

\* Outcomes of one fetch: the response's ok flag and whether its body parses,
\* or a rejected fetch.
FetchOutcomes == {"ok", "ok_badjson", "notok", "notok_badjson", "throw"}

\* Where only the body of an OK response is read, and where none is.
JsonOutcomes == {"ok", "ok_badjson", "notok", "throw"}
PlainOutcomes == {"ok", "notok", "throw"}

RespondedOk(o) == o \in {"ok", "ok_badjson"}

InitCb ==
    /\ cbUrl \in [code : CbCodes, error : CbErrors, state : CbStates]
    /\ cbPc = "mount"
    /\ cbStatus = "loading"
    /\ cbMessage = ""
    /\ cbRequests = <<>>
    /\ cbTimer = FALSE
    /\ cbWindow = "open"

\* The first fetch of handleCallback: the bare endpoint, no query string.
CbBareRequest == [code |-> NULL, state |-> NULL, outcome |-> "pending"]

\* The second fetch: callbackUrl with code, and state when truthy.
CbCallbackRequest ==
    [code |-> cbUrl.code,
     state |-> IF Truthy(cbUrl.state) THEN cbUrl.state ELSE NULL,
     outcome |-> "pending"]

CbSettle(i, o) == [cbRequests EXCEPT ![i].outcome = o]

\* setStatus('error') with one of the messages of handleCallback.
CbFail(msg) ==
    /\ cbStatus' = "error"
    /\ cbMessage' = msg
    /\ cbPc' = "done"

\* The effect runs handleCallback up to its first await.
HandleCallback ==
    /\ cbPc = "mount"
    /\ cbWindow = "open"
    /\ IF Truthy(cbUrl.error)
         THEN CbFail("OAuth error") /\ UNCHANGED cbRequests
       ELSE IF ~Truthy(cbUrl.code)
         THEN CbFail("No authorization code received") /\ UNCHANGED cbRequests
       ELSE /\ cbRequests' = Append(cbRequests, CbBareRequest)
            /\ cbPc' = "fetch1"
            /\ UNCHANGED <<cbStatus, cbMessage>>
    /\ UNCHANGED <<cbUrl, cbTimer, cbWindow>>
    /\ UNCHANGED notCb

\* The first fetch settles: its response is never looked at; a rejection goes
\* to the catch block.  Otherwise the second fetch is issued.
CbBareFetchSettles(o) ==
    /\ cbPc = "fetch1"
    /\ cbWindow = "open"
    /\ IF o = "throw"
         THEN /\ cbRequests' = CbSettle(1, o)
              /\ CbFail("Error")
         ELSE /\ cbRequests' = Append(CbSettle(1, o), CbCallbackRequest)
              /\ cbPc' = "fetch2"
              /\ UNCHANGED <<cbStatus, cbMessage>>
    /\ UNCHANGED <<cbUrl, cbTimer, cbWindow>>
    /\ UNCHANGED notCb

\* The second fetch settles and response.ok is not looked at.
CbCallbackFetchSettlesNoOkCheck(o) ==
    /\ cbPc = "fetch2"
    /\ cbWindow = "open"
    /\ cbRequests' = CbSettle(2, o)
    /\ cbStatus' = "success"
    /\ cbMessage' = "Successfully authenticated"
    /\ cbPc' = "done"
    /\ cbTimer' = TRUE
    /\ UNCHANGED <<cbUrl, cbWindow>>
    /\ UNCHANGED notCb

\* The second fetch settles and its body is read.
CbCallbackFetchSettles(o) ==
    /\ cbPc = "fetch2"
    /\ cbWindow = "open"
    /\ cbRequests' = CbSettle(2, o)
    /\ IF o = "ok"
         THEN /\ cbStatus' = "success"
              /\ cbMessage' = "Successfully authenticated"
              /\ cbPc' = "done"
              /\ cbTimer' = TRUE
       ELSE IF o = "notok"
         THEN CbFail("Authentication failed") /\ UNCHANGED cbTimer
       ELSE CbFail("Error") /\ UNCHANGED cbTimer
    /\ UNCHANGED <<cbUrl, cbWindow>>
    /\ UNCHANGED notCb

\* setTimeout(() => window.close(), 2000)
CbTimerFires ==
    /\ cbTimer
    /\ cbWindow = "open"
    /\ cbWindow' = "auto"
    /\ cbTimer' = FALSE
    /\ UNCHANGED <<cbUrl, cbPc, cbStatus, cbMessage, cbRequests>>
    /\ UNCHANGED notCb

\* The Close Window button of the error view.
CbCloseWindowClick ==
    /\ cbStatus = "error"
    /\ cbWindow = "open"
    /\ cbWindow' = "user"
    /\ UNCHANGED <<cbUrl, cbPc, cbStatus, cbMessage, cbRequests, cbTimer>>
    /\ UNCHANGED notCb

NextCb ==
    \/ HandleCallback
    \/ \E o \in PlainOutcomes : CbBareFetchSettles(o)
    \/ \E o \in FetchOutcomes : CbCallbackFetchSettles(o)
    \/ CbTimerFires
    \/ CbCloseWindowClick


(***************************************************************************)
(*                      Projects dashboard                                 *)
(***************************************************************************)

\* Bounds of the dashboard model.
MaxServerProjects == 2      \* projects the backend holds at page load
MaxProjectId == 3           \* the backend creates ids up to this one
MaxDashRequests == 2        \* POST/DELETE requests in flight together
MaxDocuments == 2           \* no upload is started for a project with this many
MaxDashTimers == 1          \* close-dialog timers armed together

\* Values typed into the project-name input; the first two are blank.
ProjectNames == {"", "  ", "Tower"}

\* String.prototype.trim on the names above.
Trim(s) == IF s \in {"", "  "} THEN "" ELSE s

PDF == "application/pdf"

\* Files the user can pick or drop.
Files == {[name |-> "plan.pdf", type |-> PDF],
          [name |-> "spec.pdf", type |-> PDF],
          [name |-> "photo.png", type |-> "image/png"]}

\* A Project of the list (name and date are display-only and left out).
Project(id, docs) == [id |-> id, documents |-> docs]

RECURSIVE IdsAscending(_)
IdsAscending(S) ==
    IF S = {} THEN <<>>
    ELSE LET m == CHOOSE x \in S : \A y \in S : x <= y
         IN  <<m>> \o IdsAscending(S \ {m})

\* data.map(project => ({id, name, date, documents: project.documents || 0}))
TransformedData(S) ==
    LET ids == IdsAscending(S)
    IN  [i \in DOMAIN ids |-> Project(ids[i], 0)]

\* projects.filter(p => p.id !== id)
RECURSIVE FilterOutId(_, _)
FilterOutId(ps, id) ==
    IF ps = <<>> THEN <<>>
    ELSE IF Head(ps).id = id THEN FilterOutId(Tail(ps), id)
    ELSE <<Head(ps)>> \o FilterOutId(Tail(ps), id)

\* projects.map(p => p.id === id ? {...p, documents: p.documents + 1} : p)
BumpDocuments(ps, id) ==
    [i \in DOMAIN ps |->
        IF ps[i].id = id THEN Project(id, ps[i].documents + 1) ELSE ps[i]]

\* Before any request of the page load has settled.
NoRequest == [kind |-> "none", outcome |-> "none"]

\* The component's state right after construction (the useState defaults).
DashFresh ==
    /\ projects = <<>>
    /\ newProjectName = ""
    /\ dialogOpen = FALSE
    /\ deleteDialogOpen = FALSE
    /\ projectToDelete = <<>>
    /\ uploadDialogOpen = FALSE
    /\ projectToUpload = <<>>
    /\ selectedFile = <<>>
    /\ uploading = FALSE
    /\ uploadSuccess = FALSE
    /\ uploadError = NULL
    /\ dashIsLoading = TRUE
    /\ dashError = NULL
    /\ dashFetch = "mount"
    /\ dashReqs = <<>>
    /\ dashLast = NoRequest
    /\ dashTimers = 0
    /\ lastChosen = [file |-> <<>>, tick |-> 0]

InitDash ==
    /\ DashFresh
    /\ \E n \in 0..MaxServerProjects :
          /\ dashServer = 1..n
          /\ dashNextId = n + 1

\* The mount effect: fetchProjects up to its await.
FetchProjects ==
    /\ dashFetch = "mount"
    /\ dashFetch' = "pending"
    /\ dashIsLoading' = TRUE
    /\ UNCHANGED <<projects, newProjectName, dialogOpen, deleteDialogOpen,
                   projectToDelete, uploadDialogOpen, projectToUpload,
                   selectedFile, uploading, uploadSuccess, uploadError,
                   dashError, dashReqs, dashTimers, lastChosen, dashServer,
                   dashNextId>>
    /\ UNCHANGED dashLast
    /\ UNCHANGED notDash

\* GET /api/projects settles: try body, catch and finally of fetchProjects.
FetchProjectsSettlesNoFinally(o) ==
    /\ dashFetch = "pending"
    /\ dashFetch' = "done"
    /\ IF o = "ok"
         THEN /\ projects' = TransformedData(dashServer)
              /\ dashError' = NULL
              /\ dashIsLoading' = FALSE
         ELSE /\ dashError' = "Failed to load projects. Please try again later."
              /\ UNCHANGED <<projects, dashIsLoading>>
    /\ UNCHANGED <<newProjectName, dialogOpen, deleteDialogOpen,
                   projectToDelete, uploadDialogOpen, projectToUpload,
                   selectedFile, uploading, uploadSuccess, uploadError,
                   dashReqs, dashTimers, lastChosen, dashServer, dashNextId>>
    /\ UNCHANGED dashLast
    /\ UNCHANGED notDash

FetchProjectsSettles(o) ==
    /\ dashFetch = "pending"
    /\ dashFetch' = "done"
    /\ IF o = "ok"
         THEN /\ projects' = TransformedData(dashServer)
              /\ dashError' = NULL
         ELSE /\ dashError' = "Failed to load projects. Please try again later."
              /\ UNCHANGED projects
    /\ dashIsLoading' = FALSE
    /\ UNCHANGED <<newProjectName, dialogOpen, deleteDialogOpen,
                   projectToDelete, uploadDialogOpen, projectToUpload,
                   selectedFile, uploading, uploadSuccess, uploadError,
                   dashReqs, dashTimers, lastChosen, dashServer, dashNextId>>
    /\ UNCHANGED dashLast
    /\ UNCHANGED notDash

\* The four views of the render, as their JSX conditions.
LoadingView == dashIsLoading
ErrorView == dashError # NULL
EmptyView == ~dashIsLoading /\ dashError = NULL /\ Len(projects) = 0
GridView == ~dashIsLoading /\ dashError = NULL /\ Len(projects) > 0

\* Try Again of the error view: window.location.reload().  The page is built
\* anew; what the old page had in flight is gone, the backend is as it was.
DashReload ==
    /\ ErrorView
    /\ projects' = <<>>
    /\ newProjectName' = ""
    /\ dialogOpen' = FALSE
    /\ deleteDialogOpen' = FALSE
    /\ projectToDelete' = <<>>
    /\ uploadDialogOpen' = FALSE
    /\ projectToUpload' = <<>>
    /\ selectedFile' = <<>>
    /\ uploading' = FALSE
    /\ uploadSuccess' = FALSE
    /\ uploadError' = NULL
    /\ dashIsLoading' = TRUE
    /\ dashError' = NULL
    /\ dashFetch' = "mount"
    /\ dashReqs' = <<>>
    /\ dashLast' = NoRequest
    /\ dashTimers' = 0
    /\ lastChosen' = [file |-> <<>>, tick |-> 0]
    /\ UNCHANGED <<dashServer, dashNextId>>
    /\ UNCHANGED notDash

\* onOpenChange / Cancel / "Create New Project" of the create dialog.
SetDialogOpen(b) ==
    /\ b # dialogOpen
    /\ dialogOpen' = b
    /\ UNCHANGED <<projects, newProjectName, deleteDialogOpen,
                   projectToDelete, uploadDialogOpen, projectToUpload,
                   selectedFile, uploading, uploadSuccess, uploadError,
                   dashIsLoading, dashError, dashFetch, dashReqs, dashTimers,
                   lastChosen, dashServer, dashNextId>>
    /\ UNCHANGED dashLast
    /\ UNCHANGED notDash

\* onChange of the project-name input.
SetNewProjectName(n) ==
    /\ dialogOpen
    /\ n # newProjectName
    /\ newProjectName' = n
    /\ UNCHANGED <<projects, dialogOpen, deleteDialogOpen,
                   projectToDelete, uploadDialogOpen, projectToUpload,
                   selectedFile, uploading, uploadSuccess, uploadError,
                   dashIsLoading, dashError, dashFetch, dashReqs, dashTimers,
                   lastChosen, dashServer, dashNextId>>
    /\ UNCHANGED dashLast
    /\ UNCHANGED notDash

\* A request record: what the handler's closure holds while it awaits.
DashReq(kind, target, file) ==
    [kind |-> kind, target |-> target, file |-> file, projects |-> projects]

\* The request list without its i-th entry.
DropAt(q, i) == SubSeq(q, 1, i - 1) \o SubSeq(q, i + 1, Len(q))

\* Request i leaves the in-flight list with outcome o.
DashSettle(i, o) ==
    /\ dashReqs' = DropAt(dashReqs, i)
    /\ dashLast' = [kind |-> dashReqs[i].kind, outcome |-> o]

DashPending(i, kind) ==
    /\ i \in DOMAIN dashReqs
    /\ dashReqs[i].kind = kind

\* createNewProject up to its await.
CreateNewProject ==
    /\ dialogOpen
    /\ Len(dashReqs) < MaxDashRequests
    /\ IF Trim(newProjectName) = ""
         THEN UNCHANGED dashReqs
         ELSE dashReqs' = Append(dashReqs, DashReq("create", 0, <<>>))
    /\ UNCHANGED <<projects, newProjectName, dialogOpen, deleteDialogOpen,
                   projectToDelete, uploadDialogOpen, projectToUpload,
                   selectedFile, uploading, uploadSuccess, uploadError,
                   dashIsLoading, dashError, dashFetch, dashTimers,
                   lastChosen, dashServer, dashNextId>>
    /\ UNCHANGED dashLast
    /\ UNCHANGED notDash

\* The backend creates the project when it answers OK.
ServerCreates(o) ==
    IF RespondedOk(o)
      THEN /\ dashServer' = dashServer \cup {dashNextId}
           /\ dashNextId' = dashNextId + 1
      ELSE UNCHANGED <<dashServer, dashNextId>>

\* POST /api/projects settles, with the list updated and the dialog closed
\* whatever the response was.
CreateSettlesOptimistic(i, o) ==
    /\ DashPending(i, "create")
    /\ RespondedOk(o) => dashNextId <= MaxProjectId
    /\ DashSettle(i, o)
    /\ ServerCreates(o)
    /\ projects' = Append(dashReqs[i].projects, Project(dashNextId, 0))
    /\ newProjectName' = ""
    /\ dialogOpen' = FALSE
    /\ UNCHANGED <<deleteDialogOpen, projectToDelete, uploadDialogOpen,
                   projectToUpload, selectedFile, uploading, uploadSuccess,
                   uploadError, dashIsLoading, dashError, dashFetch,
                   dashTimers, lastChosen>>
    /\ UNCHANGED notDash

\* POST /api/projects settles: the rest of createNewProject.
CreateSettles(i, o) ==
    /\ DashPending(i, "create")
    /\ RespondedOk(o) => dashNextId <= MaxProjectId
    /\ DashSettle(i, o)
    /\ ServerCreates(o)
    /\ IF o = "ok"
         THEN /\ projects' = Append(dashReqs[i].projects, Project(dashNextId, 0))
              /\ newProjectName' = ""
              /\ dialogOpen' = FALSE
         ELSE UNCHANGED <<projects, newProjectName, dialogOpen>>
    /\ UNCHANGED <<deleteDialogOpen, projectToDelete, uploadDialogOpen,
                   projectToUpload, selectedFile, uploading, uploadSuccess,
                   uploadError, dashIsLoading, dashError, dashFetch,
                   dashTimers, lastChosen>>
    /\ UNCHANGED notDash

\* handleDeleteProject: the trash button of a card of the grid.
HandleDeleteProject(i) ==
    /\ GridView
    /\ i \in DOMAIN projects
    /\ projectToDelete' = <<projects[i]>>
    /\ deleteDialogOpen' = TRUE
    /\ UNCHANGED <<projects, newProjectName, dialogOpen, uploadDialogOpen,
                   projectToUpload, selectedFile, uploading, uploadSuccess,
                   uploadError, dashIsLoading, dashError, dashFetch, dashReqs,
                   dashTimers, lastChosen, dashServer, dashNextId>>
    /\ UNCHANGED dashLast
    /\ UNCHANGED notDash

\* Cancel / onOpenChange(false) of the delete dialog.
CloseDeleteDialog ==
    /\ deleteDialogOpen
    /\ deleteDialogOpen' = FALSE
    /\ UNCHANGED <<projects, newProjectName, dialogOpen, projectToDelete,
                   uploadDialogOpen, projectToUpload, selectedFile, uploading,
                   uploadSuccess, uploadError, dashIsLoading, dashError,
                   dashFetch, dashReqs, dashTimers, lastChosen, dashServer,
                   dashNextId>>
    /\ UNCHANGED dashLast
    /\ UNCHANGED notDash

\* confirmDeleteProject up to its await.
ConfirmDeleteProject ==
    /\ deleteDialogOpen
    /\ Len(dashReqs) < MaxDashRequests
    /\ IF projectToDelete = <<>>
         THEN UNCHANGED dashReqs
         ELSE dashReqs' =
                Append(dashReqs, DashReq("delete", projectToDelete[1].id, <<>>))
    /\ UNCHANGED <<projects, newProjectName, dialogOpen, deleteDialogOpen,
                   projectToDelete, uploadDialogOpen, projectToUpload,
                   selectedFile, uploading, uploadSuccess, uploadError,
                   dashIsLoading, dashError, dashFetch, dashTimers,
                   lastChosen, dashServer, dashNextId>>
    /\ UNCHANGED dashLast
    /\ UNCHANGED notDash

\* DELETE /api/projects?id= settles: the rest of confirmDeleteProject (the
\* body of the response is not read).
DeleteSettles(i, o) ==
    /\ DashPending(i, "delete")
    /\ DashSettle(i, o)
    /\ IF RespondedOk(o)
         THEN /\ projects' = FilterOutId(dashReqs[i].projects, dashReqs[i].target)
              /\ deleteDialogOpen' = FALSE
              /\ projectToDelete' = <<>>
              /\ dashServer' = dashServer \ {dashReqs[i].target}
         ELSE UNCHANGED <<projects, deleteDialogOpen, projectToDelete,
                          dashServer>>
    /\ UNCHANGED <<newProjectName, dialogOpen, uploadDialogOpen,
                   projectToUpload, selectedFile, uploading, uploadSuccess,
                   uploadError, dashIsLoading, dashError, dashFetch,
                   dashTimers, lastChosen, dashNextId>>
    /\ UNCHANGED notDash

\* handleUploadDocument: the upload button of a card of the grid.
HandleUploadDocument(i) ==
    /\ GridView
    /\ i \in DOMAIN projects
    /\ projectToUpload' = <<projects[i]>>
    /\ uploadDialogOpen' = TRUE
    /\ selectedFile' = <<>>
    /\ uploadSuccess' = FALSE
    /\ uploadError' = NULL
    /\ UNCHANGED <<projects, newProjectName, dialogOpen, deleteDialogOpen,
                   projectToDelete, uploading, dashIsLoading, dashError,
                   dashFetch, dashReqs, dashTimers, lastChosen, dashServer,
                   dashNextId>>
    /\ UNCHANGED dashLast
    /\ UNCHANGED notDash

\* What the user picked or dropped: nothing, or one of Files.
FileChoices == {<<>>} \cup {<<f>> : f \in Files}

\* The body shared by handleFileSelect and handleDrop (the same code twice),
\* for a choice fo; lastChosen records the file and flips its tick.
TakeFileAnyType(fo) ==
    IF fo = <<>>
      THEN UNCHANGED <<selectedFile, uploadSuccess, uploadError, lastChosen>>
      ELSE /\ lastChosen' = [file |-> fo, tick |-> 1 - lastChosen.tick]
           /\ selectedFile' = fo
           /\ uploadSuccess' = FALSE
           /\ uploadError' = NULL

TakeFile(fo) ==
    IF fo = <<>>
      THEN UNCHANGED <<selectedFile, uploadSuccess, uploadError, lastChosen>>
      ELSE /\ lastChosen' = [file |-> fo, tick |-> 1 - lastChosen.tick]
           /\ IF fo[1].type = PDF
                THEN /\ selectedFile' = fo
                     /\ uploadSuccess' = FALSE
                     /\ uploadError' = NULL
                ELSE /\ uploadError' = "Please select a PDF file only"
                     /\ selectedFile' = <<>>
                     /\ UNCHANGED uploadSuccess

\* handleFileSelect: onChange of the file input of the upload dialog.
HandleFileSelect(fo) ==
    /\ uploadDialogOpen
    /\ TakeFile(fo)
    /\ UNCHANGED <<projects, newProjectName, dialogOpen, deleteDialogOpen,
                   projectToDelete, uploadDialogOpen, projectToUpload,
                   uploading, dashIsLoading, dashError, dashFetch, dashReqs,
                   dashTimers, dashServer, dashNextId>>
    /\ UNCHANGED dashLast
    /\ UNCHANGED notDash

\* handleDrop: a file dropped on the upload area.
HandleDrop(fo) ==
    /\ uploadDialogOpen
    /\ TakeFile(fo)
    /\ UNCHANGED <<projects, newProjectName, dialogOpen, deleteDialogOpen,
                   projectToDelete, uploadDialogOpen, projectToUpload,
                   uploading, dashIsLoading, dashError, dashFetch, dashReqs,
                   dashTimers, dashServer, dashNextId>>
    /\ UNCHANGED dashLast
    /\ UNCHANGED notDash

\* Cancel / onOpenChange(false) of the upload dialog.
CloseUploadDialog ==
    /\ uploadDialogOpen
    /\ uploadDialogOpen' = FALSE
    /\ UNCHANGED <<projects, newProjectName, dialogOpen, deleteDialogOpen,
                   projectToDelete, projectToUpload, selectedFile, uploading,
                   uploadSuccess, uploadError, dashIsLoading, dashError,
                   dashFetch, dashReqs, dashTimers, lastChosen, dashServer,
                   dashNextId>>
    /\ UNCHANGED dashLast
    /\ UNCHANGED notDash

\* uploadFile up to its await.  The Upload button is disabled while
\* uploading; the handler itself checks selectedFile and projectToUpload.
UploadFile ==
    /\ uploadDialogOpen
    /\ ~uploading
    /\ Len(dashReqs) < MaxDashRequests
    /\ dashTimers < MaxDashTimers
    /\ \A i \in DOMAIN projects : projects[i].documents < MaxDocuments
    /\ IF selectedFile = <<>> \/ projectToUpload = <<>>
         THEN UNCHANGED <<uploading, uploadError, dashReqs>>
         ELSE /\ uploading' = TRUE
              /\ uploadError' = NULL
              /\ dashReqs' = Append(dashReqs,
                     DashReq("upload", projectToUpload[1].id, selectedFile))
    /\ UNCHANGED <<projects, newProjectName, dialogOpen, deleteDialogOpen,
                   projectToDelete, uploadDialogOpen, projectToUpload,
                   selectedFile, uploadSuccess, dashIsLoading, dashError,
                   dashFetch, dashTimers, lastChosen, dashServer, dashNextId>>
    /\ UNCHANGED dashLast
    /\ UNCHANGED notDash

\* POST /api/documents settles: the rest of uploadFile (the body of the
\* response is not read).
UploadSettles(i, o) ==
    /\ DashPending(i, "upload")
    /\ DashSettle(i, o)
    /\ IF RespondedOk(o)
         THEN /\ uploadSuccess' = TRUE
              /\ selectedFile' = <<>>
              /\ projects' = BumpDocuments(dashReqs[i].projects, dashReqs[i].target)
              /\ dashTimers' = dashTimers + 1
              /\ UNCHANGED uploadError
         ELSE /\ uploadError' = "Upload failed"
              /\ UNCHANGED <<uploadSuccess, selectedFile, projects, dashTimers>>
    /\ uploading' = FALSE
    /\ UNCHANGED <<newProjectName, dialogOpen, deleteDialogOpen,
                   projectToDelete, uploadDialogOpen, projectToUpload,
                   dashIsLoading, dashError, dashFetch, lastChosen,
                   dashServer, dashNextId>>
    /\ UNCHANGED notDash

\* The 2000 ms timer of a successful upload closes the dialog.
UploadTimerFires ==
    /\ dashTimers > 0
    /\ dashTimers' = dashTimers - 1
    /\ uploadDialogOpen' = FALSE
    /\ uploadSuccess' = FALSE
    /\ UNCHANGED <<projects, newProjectName, dialogOpen, deleteDialogOpen,
                   projectToDelete, projectToUpload, selectedFile, uploading,
                   uploadError, dashIsLoading, dashError, dashFetch, dashReqs,
                   lastChosen, dashServer, dashNextId>>
    /\ UNCHANGED dashLast
    /\ UNCHANGED notDash

\* The project list: load, reload, create and delete.
NextDash ==
    \/ FetchProjects
    \/ \E o \in JsonOutcomes : FetchProjectsSettles(o)
    \/ DashReload
    \/ \E b \in BOOLEAN : SetDialogOpen(b)
    \/ \E n \in ProjectNames : SetNewProjectName(n)
    \/ CreateNewProject
    \/ \E i \in DOMAIN dashReqs, o \in JsonOutcomes : CreateSettles(i, o)
    \/ \E i \in DOMAIN projects : HandleDeleteProject(i)
    \/ CloseDeleteDialog
    \/ ConfirmDeleteProject
    \/ \E i \in DOMAIN dashReqs, o \in PlainOutcomes : DeleteSettles(i, o)

\* The upload dialog: load, reload, choose a file, upload.
NextUpload ==
    \/ FetchProjects
    \/ \E o \in JsonOutcomes : FetchProjectsSettles(o)
    \/ DashReload
    \/ \E i \in DOMAIN projects : HandleUploadDocument(i)
    \/ \E fo \in FileChoices : HandleFileSelect(fo)
    \/ \E fo \in FileChoices : HandleDrop(fo)
    \/ CloseUploadDialog
    \/ UploadFile
    \/ \E i \in DOMAIN dashReqs, o \in PlainOutcomes : UploadSettles(i, o)
    \/ UploadTimerFires

(***************************************************************************)
(*                             RFI page                                    *)
(***************************************************************************)

\* Bounds of the RFI page model.
MaxRfis == 2            \* RFIs the backend returns
MaxRfiFetches == 3      \* GET /api/rfis requests
MaxExports == 2         \* exports in flight together

\* A description is the sequence of its parts between "\n\n"; the first part
\* is the title.  The backend's description of RFI 1 has a title and a body,
\* that of the others a title only.
BackendDescription(i) == IF i = 1 THEN <<"Title", "body">> ELSE <<"Title">>

\* What GET /api/rfis can return (data.rfis || []): n RFIs, the RFI with id
\* i having one check, on page i.
RfiList(n) ==
    [i \in 1..n |-> [id |-> i, page |-> i, description |-> BackendDescription(i)]]

\* The unique page numbers of all checks.
PageNumbers(list) == {list[i].page : i \in DOMAIN list}

InitRfi ==
    /\ rfis = <<>>
    /\ rfiLoading = TRUE
    /\ rfiError = NULL
    /\ sheetCodes = {}
    /\ exportingRfiId = <<>>
    /\ rfiFetch = "mount"
    /\ rfiPages = {}
    /\ rfiNewCodes = {}
    /\ rfiLast = "none"
    /\ rfiRequests = 0
    /\ rfiClicks = 0
    /\ rfiExports = <<>>

\* fetchRFIs up to its first await.
FetchRFIsBegins ==
    /\ rfiRequests < MaxRfiFetches
    /\ rfiLoading' = TRUE
    /\ rfiError' = NULL
    /\ rfiFetch' = "rfis"
    /\ rfiRequests' = rfiRequests + 1
    /\ UNCHANGED <<rfis, sheetCodes, exportingRfiId, rfiPages, rfiNewCodes,
                   rfiLast, rfiExports>>

\* The mount effect calls fetchRFIs.
RfiMount ==
    /\ rfiFetch = "mount"
    /\ FetchRFIsBegins
    /\ UNCHANGED rfiClicks
    /\ UNCHANGED notRfi

\* The Try Again button of the error view.
TryAgain ==
    /\ ~rfiLoading
    /\ rfiError # NULL
    /\ FetchRFIsBegins
    /\ rfiClicks' = rfiClicks + 1
    /\ UNCHANGED notRfi

\* The catch and finally blocks of fetchRFIs.
FetchRFIsFails ==
    /\ rfiError' = "Failed to load RFIs"
    /\ rfiLoading' = FALSE
    /\ rfiFetch' = "done"

\* setSheetCodes(newSheetCodes) and the finally block of fetchRFIs.
FetchRFIsEnds(codes) ==
    /\ sheetCodes' = codes
    /\ rfiLoading' = FALSE
    /\ rfiFetch' = "done"

\* GET /api/rfis settles and a failure is not caught: no error is set.
FetchRFIsSettlesNoCatch(o, n) ==
    /\ rfiFetch = "rfis"
    /\ rfiLast' = o
    /\ IF o = "ok"
         THEN /\ rfis' = RfiList(n)
              /\ rfiNewCodes' = {}
              /\ rfiPages' = PageNumbers(RfiList(n))
              /\ IF PageNumbers(RfiList(n)) = {}
                   THEN FetchRFIsEnds({})
                   ELSE /\ rfiFetch' = "pages"
                        /\ UNCHANGED <<sheetCodes, rfiLoading>>
              /\ UNCHANGED rfiError
         ELSE /\ rfiLoading' = FALSE
              /\ rfiFetch' = "done"
              /\ UNCHANGED <<rfis, rfiError, sheetCodes, rfiPages, rfiNewCodes>>
    /\ UNCHANGED <<exportingRfiId, rfiRequests, rfiClicks, rfiExports>>
    /\ UNCHANGED notRfi

\* GET /api/rfis settles: setRfis, then the page requests of Promise.all are
\* issued (with no page, Promise.all resolves at once).
FetchRFIsSettles(o, n) ==
    /\ rfiFetch = "rfis"
    /\ rfiLast' = o
    /\ IF o = "ok"
         THEN /\ rfis' = RfiList(n)
              /\ rfiNewCodes' = {}
              /\ rfiPages' = PageNumbers(RfiList(n))
              /\ IF PageNumbers(RfiList(n)) = {}
                   THEN FetchRFIsEnds({})
                   ELSE /\ rfiFetch' = "pages"
                        /\ UNCHANGED <<sheetCodes, rfiLoading>>
              /\ UNCHANGED rfiError
         ELSE /\ FetchRFIsFails
              /\ UNCHANGED <<rfis, sheetCodes, rfiPages, rfiNewCodes>>
    /\ UNCHANGED <<exportingRfiId, rfiRequests, rfiClicks, rfiExports>>
    /\ UNCHANGED notRfi

\* GET /api/page?page=p settles; hasCode: the response is OK and carries
\* sheet.code.  Any failure is caught inside the map callback.  The last
\* page to settle resolves Promise.all.
PageSettles(p, hasCode) ==
    /\ rfiFetch = "pages"
    /\ p \in rfiPages
    /\ LET codes == IF hasCode THEN rfiNewCodes \cup {p} ELSE rfiNewCodes
       IN  /\ rfiNewCodes' = codes
           /\ rfiPages' = rfiPages \ {p}
           /\ IF rfiPages = {p}
                THEN FetchRFIsEnds(codes)
                ELSE UNCHANGED <<sheetCodes, rfiLoading, rfiFetch>>
    /\ UNCHANGED <<rfis, rfiError, exportingRfiId, rfiLast, rfiRequests,
                   rfiClicks, rfiExports>>
    /\ UNCHANGED notRfi

\* The RFI cards are rendered (not the spinner, not the error view).
RfiCardsShown == ~rfiLoading /\ rfiError = NULL

RfiIds == {rfis[i].id : i \in DOMAIN rfis}

\* handleExportToProcore(r) up to its first await; the Export button of r is
\* disabled while exportingRfiId === r.
HandleExportToProcore(r) ==
    /\ RfiCardsShown
    /\ r \in RfiIds
    /\ exportingRfiId # <<r>>
    /\ Len(rfiExports) < MaxExports
    /\ exportingRfiId' = <<r>>
    /\ rfiExports' = Append(rfiExports, [rfi |-> r, stage |-> "create"])
    /\ UNCHANGED <<rfis, rfiLoading, rfiError, sheetCodes, rfiFetch, rfiPages,
                   rfiNewCodes, rfiLast, rfiRequests, rfiClicks>>
    /\ UNCHANGED notRfi

\* Outcomes of POST /api/procore/create-rfi: a 401 with the confirm dialog
\* answered, or any other response.
CreateRfiOutcomes == FetchOutcomes \cup {"401_confirmed", "401_declined"}

\* The finally block of handleExportToProcore.
ExportEnds(i) ==
    /\ exportingRfiId' = <<>>
    /\ rfiExports' = DropAt(rfiExports, i)

\* POST /api/procore/create-rfi settles.
ExportCreateSettles(i, o) ==
    /\ i \in DOMAIN rfiExports
    /\ rfiExports[i].stage = "create"
    /\ IF o = "401_confirmed"
         THEN /\ rfiExports' = [rfiExports EXCEPT ![i].stage = "login"]
              /\ UNCHANGED exportingRfiId
         ELSE ExportEnds(i)
    /\ UNCHANGED <<rfis, rfiLoading, rfiError, sheetCodes, rfiFetch, rfiPages,
                   rfiNewCodes, rfiLast, rfiRequests, rfiClicks>>
    /\ UNCHANGED notRfi

\* GET /procore/auth/login settles: the popup is opened or an alert shown.
ExportLoginSettles(i, o) ==
    /\ i \in DOMAIN rfiExports
    /\ rfiExports[i].stage = "login"
    /\ ExportEnds(i)
    /\ UNCHANGED <<rfis, rfiLoading, rfiError, sheetCodes, rfiFetch, rfiPages,
                   rfiNewCodes, rfiLast, rfiRequests, rfiClicks>>
    /\ UNCHANGED notRfi

NextRfi ==
    \/ RfiMount
    \/ TryAgain
    \/ \E o \in JsonOutcomes, n \in 0..MaxRfis : FetchRFIsSettles(o, n)
    \/ \E p \in rfiPages, hasCode \in BOOLEAN : PageSettles(p, hasCode)
    \/ \E r \in RfiIds : HandleExportToProcore(r)
    \/ \E i \in DOMAIN rfiExports, o \in CreateRfiOutcomes : ExportCreateSettles(i, o)
    \/ \E i \in DOMAIN rfiExports, o \in JsonOutcomes : ExportLoginSettles(i, o)

(***************************************************************************)
(*                    RFI page: description editor                         *)
(***************************************************************************)

\* Bound of the editor model.
MaxSaves == 2           \* PATCH requests in flight together

\* The empty string.
EmptyText == <<"">>

\* What the user types into the textarea.
EditedTexts == {EmptyText, <<"new">>, <<"new", "more">>}

InitSave ==
    /\ editingRfiId = <<>>
    /\ editedRfiDescription = EmptyText
    /\ isSavingRfi = FALSE
    /\ rfiSaves = <<>>
    /\ rfiSaveLast = <<>>

\* The RFI of rfis with that id.
RfiWithId(r) == CHOOSE x \in {rfis[i] : i \in DOMAIN rfis} : x.id = r

\* cleanRfiDescription: everything after the first part; a description of
\* one part (one line, no title pattern) is returned as it is.
CleanRfiDescription(description) ==
    IF Len(description) > 1 THEN Tail(description) ELSE description

\* `${titlePart}\n\n${editedRfiDescription}`
FullDescription(original, edited) == <<original[1]>> \o edited

\* The Edit button of a card whose editor is not open.
HandleEditRfiDescription(r) ==
    /\ RfiCardsShown
    /\ r \in RfiIds
    /\ editingRfiId # <<r>>
    /\ editingRfiId' = <<r>>
    /\ editedRfiDescription' = CleanRfiDescription(RfiWithId(r).description)
    /\ UNCHANGED <<rfis, isSavingRfi, rfiSaves, rfiSaveLast>>
    /\ UNCHANGED notSave

\* The editor of the card being edited is rendered and not disabled.
EditorEnabled ==
    /\ RfiCardsShown
    /\ editingRfiId # <<>>
    /\ editingRfiId[1] \in RfiIds
    /\ ~isSavingRfi

\* onChange of the textarea.
SetEditedRfiDescription(text) ==
    /\ EditorEnabled
    /\ text # editedRfiDescription
    /\ editedRfiDescription' = text
    /\ UNCHANGED <<rfis, editingRfiId, isSavingRfi, rfiSaves, rfiSaveLast>>
    /\ UNCHANGED notSave

\* The Cancel button.
HandleCancelRfiEdit ==
    /\ EditorEnabled
    /\ editingRfiId' = <<>>
    /\ editedRfiDescription' = EmptyText
    /\ UNCHANGED <<rfis, isSavingRfi, rfiSaves, rfiSaveLast>>
    /\ UNCHANGED notSave

\* handleSaveRfiDescription without its isSavingRfi guard and with a Save
\* button that is never disabled.
HandleSaveRfiDescriptionUnguarded(r) ==
    /\ RfiCardsShown
    /\ editingRfiId = <<r>>
    /\ r \in RfiIds
    /\ Len(rfiSaves) < MaxSaves
    /\ isSavingRfi' = TRUE
    /\ rfiSaves' =
          Append(rfiSaves,
                 [rfi |-> r,
                  description |->
                      FullDescription(RfiWithId(r).description, editedRfiDescription)])
    /\ UNCHANGED <<rfis, editingRfiId, editedRfiDescription, rfiSaveLast>>
    /\ UNCHANGED notSave

\* handleSaveRfiDescription(r) up to its await, from the Save button of the
\* open editor: the RFI is found in rfis (its card is rendered), the full
\* description is built from the title and the editor's text, the PATCH sent.
HandleSaveRfiDescription(r) ==
    /\ EditorEnabled
    /\ editingRfiId = <<r>>
    /\ Len(rfiSaves) < MaxSaves
    /\ isSavingRfi' = TRUE
    /\ rfiSaves' =
          Append(rfiSaves,
                 [rfi |-> r,
                  description |->
                      FullDescription(RfiWithId(r).description, editedRfiDescription)])
    /\ UNCHANGED <<rfis, editingRfiId, editedRfiDescription, rfiSaveLast>>
    /\ UNCHANGED notSave

\* setRfis(prev => prev.map(...))
WithDescription(prev, r, description) ==
    [i \in DOMAIN prev |->
        IF prev[i].id = r THEN [prev[i] EXCEPT !.description = description]
        ELSE prev[i]]

\* The PATCH settles: an OK response updates the RFI and closes the editor,
\* anything else alerts; the finally block ends the save.
SaveSettles(i, o) ==
    /\ i \in DOMAIN rfiSaves
    /\ rfiSaves' = DropAt(rfiSaves, i)
    /\ rfiSaveLast' = <<[outcome |-> o, save |-> rfiSaves[i]]>>
    /\ isSavingRfi' = FALSE
    /\ IF o = "ok"
         THEN /\ rfis' = WithDescription(rfis, rfiSaves[i].rfi, rfiSaves[i].description)
              /\ editingRfiId' = <<>>
         ELSE UNCHANGED <<rfis, editingRfiId>>
    /\ UNCHANGED editedRfiDescription
    /\ UNCHANGED notSave

\* The RFI page from its mount to its edits: the list is fetched, then the
\* descriptions are edited and saved.
NextSave ==
    \/ RfiMount
    \/ TryAgain
    \/ \E o \in JsonOutcomes, n \in 0..MaxRfis : FetchRFIsSettles(o, n)
    \/ \E p \in rfiPages, hasCode \in BOOLEAN : PageSettles(p, hasCode)
    \/ \E r \in RfiIds : HandleEditRfiDescription(r)
    \/ \E text \in EditedTexts : SetEditedRfiDescription(text)
    \/ HandleCancelRfiEdit
    \/ \E r \in RfiIds : HandleSaveRfiDescription(r)
    \/ \E i \in DOMAIN rfiSaves, o \in PlainOutcomes : SaveSettles(i, o)

(***************************************************************************)
(*                           Chatbot page                                  *)
(***************************************************************************)

\* Bounds of the chatbot page model.
MaxSheets == 2          \* sheet ids the backend's actions name
MaxSends == 2           \* messages accepted by handleSendMessage
MaxUpdates == 2         \* updates one response stream delivers
MaxTextLen == 1         \* length of a response text
MaxSessions == 2        \* sessions the backend creates
MaxNewChats == 1        \* startNewChat calls
MaxSvgFetches == 2      \* fetchSheetSvgAndAddTab calls in flight together

SheetIds == 1..MaxSheets

\* Values typed into the chat input; the first is blank.
InputTexts == {"", "hi"}

\* A Sheet as processActionImmediate builds it, with or without SVG.
Sheet(id, svg) == [id |-> id, svgContent |-> svg]

OpenIds == {openSheets[i].id : i \in DOMAIN openSheets}

Message(sender, content, of) == [sender |-> sender, content |-> content, of |-> of]

\* A response text, by its length; JavaScript undefined is length -1.
Undefined == [len |-> 0 - 1]
Text(n) == [len |-> n]
ResponseTexts == {Text(n) : n \in 0..MaxTextLen}

\* The characters of a response text, as the content of a message.
RECURSIVE TextString(_)
TextString(n) == IF n = 0 THEN "" ELSE TextString(n - 1) \o "a"

\* 'I can help you with construction documents and sheets.'
DefaultResponse == Text(MaxTextLen)

InitChat ==
    /\ messages = <<>>
    /\ inputMessage = ""
    /\ chatIsLoading = TRUE
    /\ isTyping = FALSE
    /\ isStreaming = FALSE
    /\ isExecutingTool = FALSE
    /\ toolStatus = ""
    /\ streamingMessage = 0
    /\ openSheets = <<>>
    /\ selectedSheet = <<>>
    /\ activeSheetId = <<>>
    /\ sessionId = <<>>
    /\ sheetColumns = {}
    /\ chatInit = "mount"
    /\ sessionCalls = <<>>
    /\ chatNextSession = 1
    /\ chatSends = 0
    /\ streams = <<>>
    /\ svgFetches = <<>>
    /\ activeTab = 0

\* The catch and finally blocks of fetchProjectData.
ProjectDataFails ==
    /\ messages' = <<Message("bot", "error", 0)>>
    /\ chatIsLoading' = FALSE
    /\ chatInit' = "done"

\* The mount effect: fetchProjectData up to its first await.
FetchProjectData ==
    /\ chatInit = "mount"
    /\ chatInit' = "project"
    /\ chatIsLoading' = TRUE
    /\ UNCHANGED <<messages, inputMessage, isTyping, isStreaming,
                   isExecutingTool, toolStatus, streamingMessage, openSheets,
                   selectedSheet, activeSheetId, sessionId, sheetColumns,
                   sessionCalls, chatNextSession, chatSends, streams,
                   svgFetches>>
    /\ UNCHANGED notChat

\* GET /api/projects/:id, then GET /api/sheets settle; after the sheets the
\* session is requested.
ProjectDataSettles(o) ==
    /\ chatInit \in {"project", "sheets"}
    /\ IF o = "ok"
         THEN /\ chatInit' = (IF chatInit = "project" THEN "sheets" ELSE "session")
              /\ UNCHANGED <<messages, chatIsLoading>>
         ELSE ProjectDataFails
    /\ UNCHANGED <<inputMessage, isTyping, isStreaming, isExecutingTool,
                   toolStatus, streamingMessage, openSheets, selectedSheet,
                   activeSheetId, sessionId, sheetColumns, sessionCalls,
                   chatNextSession, chatSends, streams, svgFetches>>
    /\ UNCHANGED notChat

\* createSession settles: on data.success the id is stored and returned,
\* otherwise (success false, a rejected fetch, a body that does not parse)
\* null is returned.
CreateSessionSucceeds ==
    /\ chatNextSession <= MaxSessions
    /\ sessionId' = <<chatNextSession>>
    /\ chatNextSession' = chatNextSession + 1

\* createSession of fetchProjectData settles: welcome or error message.
InitSessionSettles(success) ==
    /\ chatInit = "session"
    /\ IF success
         THEN /\ CreateSessionSucceeds
              /\ messages' = <<Message("bot", "welcome", 0)>>
              /\ chatIsLoading' = FALSE
              /\ chatInit' = "done"
         ELSE /\ ProjectDataFails
              /\ UNCHANGED <<sessionId, chatNextSession>>
    /\ UNCHANGED <<inputMessage, isTyping, isStreaming, isExecutingTool,
                   toolStatus, streamingMessage, openSheets, selectedSheet,
                   activeSheetId, sheetColumns, sessionCalls, chatSends,
                   streams, svgFetches>>
    /\ UNCHANGED notChat

\* onChange of the chat input, which is disabled while a reply is awaited.
SetInputMessage(v) ==
    /\ ~(isTyping \/ isStreaming \/ isExecutingTool)
    /\ v # inputMessage
    /\ inputMessage' = v
    /\ UNCHANGED <<messages, chatIsLoading, isTyping, isStreaming,
                   isExecutingTool, toolStatus, streamingMessage, openSheets,
                   selectedSheet, activeSheetId, sessionId, sheetColumns,
                   chatInit, sessionCalls, chatNextSession, chatSends,
                   streams, svgFetches>>
    /\ UNCHANGED notChat

\* An accepted send: what handleSendMessage and processMessageStream hold in
\* their closures while the reply is on its way.  openIds are the ids of
\* openSheets as rendered when the message was sent.
Stream(stage, final) ==
    [of |-> chatSends + 1, sid |-> sessionId, openIds |-> OpenIds,
     stage |-> stage, final |-> final, idx |-> 0, updates |-> 0]

\* handleSendMessage once the input is not blank and the guard has passed:
\* the user message is appended and processMessageStream runs up to its
\* fetch (or returns its text when there is no session).
AcceptMessage ==
    /\ chatSends < MaxSends
    /\ chatSends' = chatSends + 1
    /\ messages' = Append(messages, Message("user", inputMessage, chatSends + 1))
    /\ inputMessage' = ""
    /\ isTyping' = TRUE
    /\ streams' = Append(streams,
                         IF sessionId = <<>>
                           THEN Stream("nosession", Text(MaxTextLen))
                           ELSE Stream("fetch", DefaultResponse))

\* handleSendMessage without the check of sessionId and of the busy flags.
HandleSendMessageUnguarded ==
    /\ IF inputMessage = ""
         THEN UNCHANGED <<messages, inputMessage, isTyping, chatSends, streams>>
         ELSE AcceptMessage
    /\ UNCHANGED <<chatIsLoading, isStreaming, isExecutingTool, toolStatus,
                   streamingMessage, openSheets, selectedSheet, activeSheetId,
                   sessionId, sheetColumns, chatInit, sessionCalls,
                   chatNextSession, svgFetches>>
    /\ UNCHANGED notChat

\* handleSendMessage: the Send button or Enter.
HandleSendMessage ==
    /\ IF inputMessage = ""
         THEN UNCHANGED <<messages, inputMessage, isTyping, chatSends, streams>>
       ELSE IF sessionId = <<>> \/ isTyping \/ isStreaming \/ isExecutingTool
         THEN UNCHANGED <<messages, inputMessage, isTyping, chatSends, streams>>
       ELSE AcceptMessage
    /\ UNCHANGED <<chatIsLoading, isStreaming, isExecutingTool, toolStatus,
                   streamingMessage, openSheets, selectedSheet, activeSheetId,
                   sessionId, sheetColumns, chatInit, sessionCalls,
                   chatNextSession, svgFetches>>
    /\ UNCHANGED notChat

\* The catch block of handleSendMessage: the fixed apology is appended.
SendFails(i) ==
    /\ isTyping' = FALSE
    /\ isExecutingTool' = FALSE
    /\ toolStatus' = ""
    /\ messages' = Append(messages, Message("bot", "apology", streams[i].of))
    /\ streams' = DropAt(streams, i)

\* POST /api/chatbot/stream settles: an OK response with a body is read,
\* anything else throws into the catch block of handleSendMessage.
StreamResponds(i, ok) ==
    /\ i \in DOMAIN streams
    /\ streams[i].stage = "fetch"
    /\ IF ok
         THEN /\ streams' = [streams EXCEPT ![i].stage = "read"]
              /\ UNCHANGED <<messages, isTyping, isExecutingTool, toolStatus>>
         ELSE SendFails(i)
    /\ UNCHANGED <<inputMessage, chatIsLoading, isStreaming, streamingMessage,
                   openSheets, selectedSheet, activeSheetId, sessionId,
                   sheetColumns, chatInit, sessionCalls, chatNextSession,
                   chatSends, svgFetches>>
    /\ UNCHANGED notChat

\* reader.read() rejects.
StreamBreaks(i) ==
    /\ i \in DOMAIN streams
    /\ streams[i].stage = "read"
    /\ SendFails(i)
    /\ UNCHANGED <<inputMessage, chatIsLoading, isStreaming, streamingMessage,
                   openSheets, selectedSheet, activeSheetId, sessionId,
                   sheetColumns, chatInit, sessionCalls, chatNextSession,
                   chatSends, svgFetches>>
    /\ UNCHANGED notChat

CountUpdate(i) == [streams EXCEPT ![i].updates = @ + 1]

CanUpdate(i) ==
    /\ i \in DOMAIN streams
    /\ streams[i].stage = "read"
    /\ streams[i].updates < MaxUpdates

\* A 'tool_status' update.
ToolStatusUpdate(i) ==
    /\ CanUpdate(i)
    /\ streams' = CountUpdate(i)
    /\ toolStatus' = "tool"
    /\ isExecutingTool' = TRUE
    /\ isTyping' = FALSE
    /\ UNCHANGED <<messages, inputMessage, chatIsLoading, isStreaming,
                   streamingMessage, openSheets, selectedSheet, activeSheetId,
                   sessionId, sheetColumns, chatInit, sessionCalls,
                   chatNextSession, chatSends, svgFetches>>
    /\ UNCHANGED notChat

\* A 'final' or 'error' update; text is data.response, which may be absent.
FinalUpdate(i, text) ==
    /\ CanUpdate(i)
    /\ streams' = [CountUpdate(i) EXCEPT ![i].final = text]
    /\ isExecutingTool' = FALSE
    /\ toolStatus' = ""
    /\ isTyping' = FALSE
    /\ UNCHANGED <<messages, inputMessage, chatIsLoading, isStreaming,
                   streamingMessage, openSheets, selectedSheet, activeSheetId,
                   sessionId, sheetColumns, chatInit, sessionCalls,
                   chatNextSession, chatSends, svgFetches>>
    /\ UNCHANGED notChat

Min(a, b) == IF a < b THEN a ELSE b

\* currentSheet of the viewer: sheets[safeActiveTab], as <<>> or <<sheet>>.
CurrentSheet(sheets, tab) ==
    IF sheets = <<>> THEN <<>>
    ELSE <<sheets[Min(tab, Len(sheets) - 1) + 1]>>

\* activeTab once the viewer has rendered sheets and activeSheetId newId and
\* its effects have run: a viewer that is mounted starts at tab 0; the
\* out-of-bounds effect and the activeSheetId effect run when one of their
\* dependencies has changed, and both set the index of the last tab.
ViewerTab(oldSheets, oldId, tab, newSheets, newId) ==
    IF newSheets = <<>> THEN 0
    ELSE LET mounts == oldSheets = <<>>
             t == IF mounts THEN 0 ELSE tab
             lengthChanged == mounts \/ Len(newSheets) # Len(oldSheets)
             outOfBounds == lengthChanged /\ t >= Len(newSheets)
             autoSwitch == /\ lengthChanged \/ newId # oldId
                           /\ newId # <<>>
                           /\ newSheets[Len(newSheets)].id = newId[1]
         IN  IF outOfBounds \/ autoSwitch THEN Len(newSheets) - 1 ELSE t

\* selectedSheet once the onActiveSheetChange effect of the viewer has run:
\* handleActiveSheetChange stores the current sheet when currentSheet has
\* changed (replaced: its entry is a new object); selected is what the
\* step itself has set.
AfterActiveSheetChange(selected, oldSheets, oldTab, newSheets, newTab, replaced) ==
    IF /\ newSheets # <<>>
       /\ \/ CurrentSheet(newSheets, newTab) # CurrentSheet(oldSheets, oldTab)
          \/ replaced
      THEN CurrentSheet(newSheets, newTab)
      ELSE selected

ActionKinds == {"open_sheet", "show_columns"}

\* A call of fetchSheetSvgAndAddTab for sheet id, made by an action of a
\* stream that was sent in session sid.
SvgFetch(id, sid) == [id |-> id, sid |-> sid]

\* An 'action' update: onUpdate sets the tool status, then
\* processActionImmediate opens sheet s (fetching its SVG unless the sheet is
\* among the openSheets of the closure) and selects it.
ActionUpdate(i, kind, s) ==
    /\ CanUpdate(i)
    /\ streams' = CountUpdate(i)
    /\ toolStatus' = "action"
    /\ IF s \in streams[i].openIds
         THEN UNCHANGED svgFetches
         ELSE /\ Len(svgFetches) < MaxSvgFetches
              /\ svgFetches' = Append(svgFetches, SvgFetch(s, streams[i].sid))
    /\ activeSheetId' = <<s>>
    /\ activeTab' = ViewerTab(openSheets, activeSheetId, activeTab,
                              openSheets, <<s>>)
    /\ selectedSheet' = AfterActiveSheetChange(<<Sheet(s, "")>>, openSheets,
                                               activeTab, openSheets,
                                               activeTab', FALSE)
    /\ sheetColumns' = (IF kind = "show_columns" THEN sheetColumns \cup {s}
                        ELSE sheetColumns)
    /\ UNCHANGED <<messages, inputMessage, chatIsLoading, isTyping,
                   isStreaming, isExecutingTool, streamingMessage, openSheets,
                   sessionId, chatInit, sessionCalls, chatNextSession,
                   chatSends>>
    /\ UNCHANGED otherPages

\* The stream ends (or there was no session): processMessageStream returns
\* the final response and handleSendMessage starts streamText.
StreamDone(i) ==
    /\ i \in DOMAIN streams
    /\ streams[i].stage \in {"read", "nosession"}
    /\ isTyping' = FALSE
    /\ isExecutingTool' = FALSE
    /\ toolStatus' = ""
    /\ streamingMessage' = 0
    /\ isStreaming' = TRUE
    /\ streams' = [streams EXCEPT ![i].stage = "type"]
    /\ UNCHANGED <<messages, inputMessage, chatIsLoading, openSheets,
                   selectedSheet, activeSheetId, sessionId, sheetColumns,
                   chatInit, sessionCalls, chatNextSession, chatSends,
                   svgFetches>>
    /\ UNCHANGED notChat

\* One tick of the 5 ms interval of streamText.  With an undefined text the
\* callback throws on text.length at every tick and changes nothing.
StreamTextTick(i) ==
    /\ i \in DOMAIN streams
    /\ streams[i].stage = "type"
    /\ streams[i].final # Undefined
    /\ IF streams[i].idx < streams[i].final.len
         THEN /\ streamingMessage' = streams[i].idx + 1
              /\ streams' = [streams EXCEPT ![i].idx = @ + 1]
              /\ UNCHANGED <<isStreaming, messages>>
         ELSE /\ isStreaming' = FALSE
              /\ messages' = Append(messages,
                                    Message("bot", TextString(streams[i].final.len),
                                            streams[i].of))
              /\ streamingMessage' = 0
              /\ streams' = DropAt(streams, i)
    /\ UNCHANGED <<inputMessage, chatIsLoading, isTyping, isExecutingTool,
                   toolStatus, openSheets, selectedSheet, activeSheetId,
                   sessionId, sheetColumns, chatInit, sessionCalls,
                   chatNextSession, chatSends, svgFetches>>
    /\ UNCHANGED notChat

\* The updater of setOpenSheets without its check for an existing entry.
AddTabUnchecked(prev, sheet) == Append(prev, sheet)

\* The updaters of setOpenSheets in fetchSheetSvgAndAddTab: an entry with
\* the same id is replaced when the SVG was fetched and kept otherwise; a
\* new sheet is appended.
AddTab(prev, sheet) ==
    IF \E k \in DOMAIN prev : prev[k].id = sheet.id
      THEN IF sheet.svgContent # ""
             THEN [k \in DOMAIN prev |->
                     IF prev[k].id = sheet.id THEN sheet ELSE prev[k]]
             ELSE prev
      ELSE Append(prev, sheet)

\* Outcomes of GET /api/sheets/:id in fetchSheetSvgAndAddTab.
SvgOutcomes == {"svg", "nosvg", "notok", "throw"}

\* GET /api/sheets/:id settles.
SvgSettles(i, o) ==
    /\ i \in DOMAIN svgFetches
    /\ openSheets' = AddTab(openSheets,
                            IF o = "svg" THEN Sheet(svgFetches[i].id, "svg")
                            ELSE Sheet(svgFetches[i].id, ""))
    /\ svgFetches' = DropAt(svgFetches, i)
    /\ activeTab' = ViewerTab(openSheets, activeSheetId, activeTab,
                              openSheets', activeSheetId)
    /\ selectedSheet' =
          AfterActiveSheetChange(selectedSheet, openSheets, activeTab,
                                 openSheets', activeTab',
                                 /\ o = "svg"
                                 /\ CurrentSheet(openSheets', activeTab')
                                       = <<Sheet(svgFetches[i].id, "svg")>>)
    /\ UNCHANGED <<messages, inputMessage, chatIsLoading, isTyping,
                   isStreaming, isExecutingTool, toolStatus, streamingMessage,
                   activeSheetId, sessionId, sheetColumns,
                   chatInit, sessionCalls, chatNextSession, chatSends,
                   streams>>
    /\ UNCHANGED otherPages

\* prev.filter(sheet => sheet.id !== sheetId)
RECURSIVE FilterOutSheet(_, _)
FilterOutSheet(prev, id) ==
    IF prev = <<>> THEN <<>>
    ELSE IF Head(prev).id = id THEN FilterOutSheet(Tail(prev), id)
    ELSE <<Head(prev)>> \o FilterOutSheet(Tail(prev), id)

\* closeTab of the viewer: the last tab closes the viewer (onClose), any
\* other tab goes through handleCloseSheet.
CloseTab(k) ==
    /\ k \in DOMAIN openSheets
    /\ openSheets' = (IF Len(openSheets) = 1 THEN <<>>
                      ELSE FilterOutSheet(openSheets, openSheets[k].id))
    /\ activeTab' = ViewerTab(openSheets, activeSheetId, activeTab,
                              openSheets', activeSheetId)
    /\ selectedSheet' =
          AfterActiveSheetChange(
              IF /\ Len(openSheets) > 1
                 /\ selectedSheet # <<>>
                 /\ selectedSheet[1].id = openSheets[k].id
                THEN <<>> ELSE selectedSheet,
              openSheets, activeTab, openSheets', activeTab', FALSE)
    /\ UNCHANGED <<messages, inputMessage, chatIsLoading, isTyping,
                   isStreaming, isExecutingTool, toolStatus, streamingMessage,
                   activeSheetId, sessionId, sheetColumns, chatInit,
                   sessionCalls, chatNextSession, chatSends, streams,
                   svgFetches>>
    /\ UNCHANGED otherPages

\* A click on tab k of the viewer.
SetActiveTab(k) ==
    /\ k \in 0..(Len(openSheets) - 1)
    /\ k # activeTab
    /\ activeTab' = k
    /\ selectedSheet' = AfterActiveSheetChange(selectedSheet, openSheets,
                                               activeTab, openSheets, k, FALSE)
    /\ UNCHANGED <<messages, inputMessage, chatIsLoading, isTyping,
                   isStreaming, isExecutingTool, toolStatus, streamingMessage,
                   openSheets, activeSheetId, sessionId, sheetColumns,
                   chatInit, sessionCalls, chatNextSession, chatSends,
                   streams, svgFetches>>
    /\ UNCHANGED otherPages

\* startNewChat up to its await: the conversation state is cleared.  The
\* button is rendered from the first render on.
StartNewChat ==
    /\ Len(sessionCalls) < MaxNewChats
    /\ sessionCalls' = Append(sessionCalls, "pending")
    /\ messages' = <<>>
    /\ openSheets' = <<>>
    /\ selectedSheet' = <<>>
    /\ activeSheetId' = <<>>
    /\ sheetColumns' = {}
    /\ activeTab' = 0
    /\ UNCHANGED <<inputMessage, chatIsLoading, isTyping, isStreaming,
                   isExecutingTool, toolStatus, streamingMessage, sessionId,
                   chatInit, chatNextSession, chatSends, streams, svgFetches>>
    /\ UNCHANGED otherPages

\* createSession of startNewChat settles: welcome or error message.
NewChatSessionSettles(c, success) ==
    /\ c \in DOMAIN sessionCalls
    /\ sessionCalls[c] = "pending"
    /\ sessionCalls' = [sessionCalls EXCEPT ![c] = "settled"]
    /\ IF success
         THEN /\ CreateSessionSucceeds
              /\ messages' = <<Message("bot", "welcome-new", 0)>>
         ELSE /\ messages' = Append(messages, Message("bot", "error-new-chat", 0))
              /\ UNCHANGED <<sessionId, chatNextSession>>
    /\ UNCHANGED <<inputMessage, chatIsLoading, isTyping, isStreaming,
                   isExecutingTool, toolStatus, streamingMessage, openSheets,
                   selectedSheet, activeSheetId, sheetColumns, chatInit,
                   chatSends, streams, svgFetches>>
    /\ UNCHANGED notChat

\* The conversation: messages, sessions and replies.
NextChat ==
    \/ FetchProjectData
    \/ \E o \in PlainOutcomes : ProjectDataSettles(o)
    \/ \E success \in BOOLEAN : InitSessionSettles(success)
    \/ \E v \in InputTexts : SetInputMessage(v)
    \/ HandleSendMessage
    \/ \E i \in DOMAIN streams, ok \in BOOLEAN : StreamResponds(i, ok)
    \/ \E i \in DOMAIN streams : StreamBreaks(i)
    \/ \E i \in DOMAIN streams : ToolStatusUpdate(i)
    \/ \E i \in DOMAIN streams, text \in ResponseTexts \cup {Undefined} :
          FinalUpdate(i, text)
    \/ \E i \in DOMAIN streams : StreamDone(i)
    \/ \E i \in DOMAIN streams : StreamTextTick(i)
    \/ StartNewChat
    \/ \E c \in DOMAIN sessionCalls, success \in BOOLEAN :
          NewChatSessionSettles(c, success)

\* The sheet tabs: the actions of a reply and the viewer.
NextSheets ==
    \/ FetchProjectData
    \/ \E o \in PlainOutcomes : ProjectDataSettles(o)
    \/ \E success \in BOOLEAN : InitSessionSettles(success)
    \/ \E v \in InputTexts : SetInputMessage(v)
    \/ HandleSendMessage
    \/ \E i \in DOMAIN streams, ok \in BOOLEAN : StreamResponds(i, ok)
    \/ \E i \in DOMAIN streams, kind \in ActionKinds, s \in SheetIds :
          ActionUpdate(i, kind, s)
    \/ \E i \in DOMAIN streams : StreamDone(i)
    \/ \E i \in DOMAIN streams : StreamTextTick(i)
    \/ \E i \in DOMAIN svgFetches, o \in SvgOutcomes : SvgSettles(i, o)
    \/ \E k \in DOMAIN openSheets : CloseTab(k)
    \/ StartNewChat
    \/ \E c \in DOMAIN sessionCalls, success \in BOOLEAN :
          NewChatSessionSettles(c, success)

(***************************************************************************)
(*                      Sheet viewer: zoom animation                       *)
(*                                                                         *)
(* Numbers are integers; a frame's interpolation rounds down, the last     *)
(* frame (eased progress 1) is exact.                                      *)
(***************************************************************************)

\* Bounds of the zoom model.
ZoomSteps == 2          \* instants of an animation at which a frame can run
MaxZoomActions == 2     \* zoom actions the viewer starts
MaxAnimations == 2      \* animations running together

ViewState(scale, x, y) == [scale |-> scale, translateX |-> x, translateY |-> y]

\* { scale: 1, translateX: 0, translateY: 0 }
DefaultViewState == ViewState(1, 0, 0)

\* View states a wheel zoom, a drag or a fit leaves.
UserViewStates == {ViewState(1, 0, 0), ViewState(2, 0 - 40, 0), ViewState(1, 60, 20)}

\* Sizes the stage takes: the estimate from the window, the container's.
StageSizes == {[width |-> 800, height |-> 600], [width |-> 760, height |-> 520]}

\* Zoom actions of the backend: center_x, center_y, zoom_level.
ZoomActions ==
    {[center_x |-> x, center_y |-> y, zoom_level |-> z] :
        x \in {0, 100}, y \in {50}, z \in {1, 3}}

\* The view state that centres the action's point on a stage of that size.
CentredView(zoom, stage) ==
    ViewState(zoom.zoom_level,
              (stage.width \div 2) - zoom.center_x * zoom.zoom_level,
              (stage.height \div 2) - zoom.center_y * zoom.zoom_level)

\* easeInOutQuad(k / ZoomSteps), as a numerator over ZoomSteps * ZoomSteps.
EaseInOutQuad(k) ==
    IF 2 * k < ZoomSteps THEN 2 * k * k
    ELSE 4 * k * ZoomSteps - 2 * k * k - ZoomSteps * ZoomSteps

\* start + (target - start) * easedProgress
Interpolate(start, target, k) ==
    start + ((target - start) * EaseInOutQuad(k)) \div (ZoomSteps * ZoomSteps)

InitZoom ==
    /\ viewState = DefaultViewState
    /\ stageSize \in StageSizes
    /\ zoomAnimations = <<>>
    /\ zoomActions = 0
    /\ zoomLast = <<>>

\* The zoomAction effect runs for a new zoom action on the current sheet:
\* animateZoomToPosition takes the start view state and the stage size of
\* the render and computes the target.
AnimateZoomToPosition(zoom) ==
    /\ zoomActions < MaxZoomActions
    /\ Len(zoomAnimations) < MaxAnimations
    /\ stageSize.width > 0 /\ stageSize.height > 0
    /\ zoomActions' = zoomActions + 1
    /\ zoomAnimations' =
          Append(zoomAnimations,
                 [zoom |-> zoom, start |-> viewState,
                  target |-> CentredView(zoom, stageSize), k |-> 0])
    /\ UNCHANGED <<viewState, stageSize, zoomLast>>
    /\ UNCHANGED notZoom

\* One frame of animate, at the instant k of ZoomSteps: the view state of
\* the sheet is overwritten with the interpolated one; the frame at progress
\* 1 is the last.
Animate(i, k) ==
    /\ i \in DOMAIN zoomAnimations
    /\ k > zoomAnimations[i].k
    /\ LET a == zoomAnimations[i]
       IN  /\ viewState' =
                 ViewState(Interpolate(a.start.scale, a.target.scale, k),
                           Interpolate(a.start.translateX, a.target.translateX, k),
                           Interpolate(a.start.translateY, a.target.translateY, k))
           /\ IF k < ZoomSteps
                THEN /\ zoomAnimations' = [zoomAnimations EXCEPT ![i].k = k]
                     /\ UNCHANGED zoomLast
                ELSE /\ zoomAnimations' = DropAt(zoomAnimations, i)
                     /\ zoomLast' = <<a>>
    /\ UNCHANGED <<stageSize, zoomActions>>
    /\ UNCHANGED notZoom

\* handleWheel, handleZoom or handleStageDragEnd: updateViewState stores
\* the view state the user's zoom or drag leaves.
UpdateViewState(v) ==
    /\ v # viewState
    /\ viewState' = v
    /\ UNCHANGED <<stageSize, zoomAnimations, zoomActions, zoomLast>>
    /\ UNCHANGED notZoom

\* updateSize: the stage takes the size of its container.
UpdateSize(size) ==
    /\ size # stageSize
    /\ stageSize' = size
    /\ UNCHANGED <<viewState, zoomAnimations, zoomActions, zoomLast>>
    /\ UNCHANGED notZoom

NextZoom ==
    \/ \E zoom \in ZoomActions : AnimateZoomToPosition(zoom)
    \/ \E i \in DOMAIN zoomAnimations, k \in 1..ZoomSteps : Animate(i, k)
    \/ \E v \in UserViewStates : UpdateViewState(v)
    \/ \E size \in StageSizes : UpdateSize(size)

(***************************************************************************)
(*                          Specifications                                 *)
(***************************************************************************)

\* A page nobody has opened stays in one fixed initial state.
CbParked == InitCb /\ cbUrl = [code |-> NULL, error |-> NULL, state |-> NULL]
DashParked == InitDash /\ dashServer = {}
RfiParked == InitRfi
ChatParked == InitChat
ZoomParked == InitZoom /\ stageSize.width = 800
SaveParked == InitSave

InitSpecCb == InitCb /\ DashParked /\ RfiParked /\ ChatParked /\ ZoomParked /\ SaveParked
SpecCb == InitSpecCb /\ [][NextCb]_vars

InitSpecDash == InitDash /\ CbParked /\ RfiParked /\ ChatParked /\ ZoomParked /\ SaveParked
SpecDash == InitSpecDash /\ [][NextDash]_vars

InitSpecUpload == InitDash /\ CbParked /\ RfiParked /\ ChatParked /\ ZoomParked /\ SaveParked
SpecUpload == InitSpecUpload /\ [][NextUpload]_vars

InitSpecRfi == InitRfi /\ CbParked /\ DashParked /\ ChatParked /\ ZoomParked /\ SaveParked
SpecRfi == InitSpecRfi /\ [][NextRfi]_vars

InitSpecChat == InitChat /\ CbParked /\ DashParked /\ RfiParked /\ ZoomParked /\ SaveParked
SpecChat == InitSpecChat /\ [][NextChat]_vars

\* The viewer's tabs: actions of a reply, tab clicks and tab closes.
NextViewer ==
    \/ FetchProjectData
    \/ \E o \in PlainOutcomes : ProjectDataSettles(o)
    \/ \E success \in BOOLEAN : InitSessionSettles(success)
    \/ \E v \in InputTexts : SetInputMessage(v)
    \/ HandleSendMessage
    \/ \E i \in DOMAIN streams, ok \in BOOLEAN : StreamResponds(i, ok)
    \/ \E i \in DOMAIN streams, kind \in ActionKinds, s \in SheetIds :
          ActionUpdate(i, kind, s)
    \/ \E i \in DOMAIN streams : StreamDone(i)
    \/ \E i \in DOMAIN streams : StreamTextTick(i)
    \/ \E i \in DOMAIN svgFetches, o \in SvgOutcomes : SvgSettles(i, o)
    \/ \E k \in DOMAIN openSheets : CloseTab(k)
    \/ \E k \in 0..(MaxSheets - 1) : SetActiveTab(k)

InitSpecViewer == InitChat /\ CbParked /\ DashParked /\ RfiParked /\ ZoomParked /\ SaveParked
SpecViewer == InitSpecViewer /\ [][NextViewer]_vars

\* What the browser and the network guarantee to a send: the POST settles,
\* the response stream ends or breaks, and the 5 ms interval of streamText
\* keeps firing.
ChatFairness ==
    \A i \in 1..MaxSends :
        /\ WF_vars(\E ok \in BOOLEAN : StreamResponds(i, ok))
        /\ WF_vars(StreamDone(i) \/ StreamBreaks(i))
        /\ WF_vars(StreamTextTick(i))

SpecChatFair == InitSpecChat /\ [][NextChat]_vars /\ ChatFairness

InitSpecZoom == InitZoom /\ CbParked /\ DashParked /\ RfiParked /\ ChatParked /\ SaveParked
SpecZoom == InitSpecZoom /\ [][NextZoom]_vars

InitSpecSave == InitRfi /\ InitSave /\ CbParked /\ DashParked /\ ChatParked /\ ZoomParked
SpecSave == InitSpecSave /\ [][NextSave]_vars

InitSpecSheets == InitChat /\ CbParked /\ DashParked /\ RfiParked /\ ZoomParked /\ SaveParked
SpecSheets == InitSpecSheets /\ [][NextSheets]_vars

(***************************************************************************)
(* C5 (as claimed): handling a callback URL that carries a code makes      *)
(* exactly one request to /procore/oauth/callback, and that request        *)
(* carries the code, and the state when present.                           *)
(***************************************************************************)
C5_CodeSentExactlyOnce ==
    (Truthy(cbUrl.code) /\ ~Truthy(cbUrl.error) /\ cbPc # "mount") =>
        /\ Len(cbRequests) = 1
        /\ cbRequests[1].code = cbUrl.code
        /\ Truthy(cbUrl.state) => cbRequests[1].state = cbUrl.state

(***************************************************************************)
(* C6: status starts at 'loading', leaves it once and never changes        *)
(* afterwards; it is 'success' only if the request carrying the code       *)
(* responded OK; with an error parameter or without a code it becomes      *)
(* 'error' and no request is made; a thrown fetch yields 'error'; the      *)
(* window closes by itself only after 'success'.                           *)
(***************************************************************************)
C6_StatusInv ==
    /\ cbPc = "mount" => cbStatus = "loading"
    /\ cbStatus = "success" =>
          \E i \in DOMAIN cbRequests :
              /\ Truthy(cbRequests[i].code)
              /\ cbRequests[i].code = cbUrl.code
              /\ RespondedOk(cbRequests[i].outcome)
    /\ (Truthy(cbUrl.error) \/ ~Truthy(cbUrl.code)) =>
          /\ cbRequests = <<>>
          /\ cbPc # "mount" => cbStatus = "error"
    /\ \A i \in DOMAIN cbRequests :
          cbRequests[i].outcome = "throw" => cbStatus = "error"
    /\ cbWindow = "auto" => cbStatus = "success"

C6_StatusStep == cbStatus # "loading" => cbStatus' = cbStatus

\* C6: the status leaves 'loading' once and keeps its value; 'success' needs
\* an OK response to the request carrying the code; the window closes by
\* itself only after 'success'.
C6_StatusSettlesOnce == []C6_StatusInv /\ [][C6_StatusStep]_vars

\* The code was exchanged, the page shows success and closed itself.
C6_Witness == cbStatus = "success" /\ cbWindow = "auto"

(***************************************************************************)
(* C2: the project list changes only when a request responded OK.  A       *)
(* create or delete request that responds non-OK or throws leaves the      *)
(* project list as it is and does not close its dialog (for delete,        *)
(* projectToDelete stays set); a blank project name sends no request.      *)
(***************************************************************************)
C2_Settled == Len(dashReqs') < Len(dashReqs) /\ dashFetch' = dashFetch

C2_Loaded == dashFetch = "pending" /\ dashFetch' = "done" /\ dashError' = NULL

C2_Reloaded == dashFetch = "done" /\ dashFetch' = "mount"

C2_Step ==
    /\ (C2_Settled /\ dashLast'.kind = "create" /\ ~RespondedOk(dashLast'.outcome))
          => projects' = projects /\ dialogOpen' = dialogOpen
    /\ (C2_Settled /\ dashLast'.kind = "delete" /\ ~RespondedOk(dashLast'.outcome))
          => /\ projects' = projects
             /\ deleteDialogOpen' = deleteDialogOpen
             /\ projectToDelete' = projectToDelete
    /\ projects' # projects =>
          \/ C2_Settled /\ RespondedOk(dashLast'.outcome)
          \/ C2_Loaded
          \/ C2_Reloaded
    /\ Len(dashReqs') > Len(dashReqs) =>
          LET r == dashReqs'[Len(dashReqs')]
          IN  /\ r.kind = "create" => Trim(newProjectName) # ""
              /\ r.kind = "delete" => projectToDelete # <<>>

\* C2: the project list changes only when a request responded OK; a failed
\* create or delete leaves list and dialog as they are; a blank name sends
\* no request.
C2_ListFollowsBackend == [][C2_Step]_vars

\* A create request has failed: the dialog is open, the list is as loaded.
C2_Witness ==
    /\ dashLast = [kind |-> "create", outcome |-> "throw"]
    /\ dialogOpen
    /\ Len(projects) = MaxServerProjects

(***************************************************************************)
(* C7: selectedFile is non-null only if the last chosen file is a PDF (and *)
(* is that file); choosing a non-PDF file sets uploadError and clears      *)
(* selectedFile; uploadFile sends no request when selectedFile or          *)
(* projectToUpload is null, so every upload in flight carries a PDF.       *)
(***************************************************************************)
C7_Inv ==
    /\ selectedFile # <<>> =>
          /\ selectedFile = lastChosen.file
          /\ selectedFile[1].type = PDF
    /\ \A i \in DOMAIN dashReqs :
          dashReqs[i].kind = "upload" =>
              /\ dashReqs[i].file # <<>>
              /\ dashReqs[i].file[1].type = PDF
              /\ dashReqs[i].target \in 1..MaxProjectId

C7_Step ==
    /\ (lastChosen'.tick # lastChosen.tick /\ lastChosen'.file # <<>>
            /\ lastChosen'.file[1].type # PDF)
          => uploadError' = "Please select a PDF file only" /\ selectedFile' = <<>>
    /\ (selectedFile = <<>> \/ projectToUpload = <<>>)
          => Len(dashReqs') <= Len(dashReqs)

\* C7: only a PDF is ever selected or uploaded; a non-PDF choice sets
\* uploadError and clears selectedFile.
C7_OnlyPdf == []C7_Inv /\ [][C7_Step]_vars

\* A PDF was selected and then a non-PDF file: the selection is cleared.
C7_Witness ==
    /\ lastChosen.file # <<>>
    /\ lastChosen.file[1].type # PDF
    /\ lastChosen.tick = 0
    /\ selectedFile = <<>>
    /\ uploadError = "Please select a PDF file only"

(***************************************************************************)
(* C9: exactly one of the four dashboard views is rendered in every state; *)
(* isLoading and a non-null error never hold together; once the initial    *)
(* fetch has finished isLoading is false.                                  *)
(***************************************************************************)
C9_ViewCount ==
    (IF LoadingView THEN 1 ELSE 0) + (IF ErrorView THEN 1 ELSE 0)
      + (IF EmptyView THEN 1 ELSE 0) + (IF GridView THEN 1 ELSE 0)

C3_Inv ==
    /\ rfiRequests = (IF rfiFetch = "mount" THEN 0 ELSE 1) + rfiClicks
    /\ (rfiFetch = "done" /\ rfiLast # "ok") => ~rfiLoading /\ rfiError # NULL

C3_Step ==
    /\ (rfiFetch = "rfis" /\ rfiFetch' # "rfis" /\ rfiLast' # "ok")
          => /\ rfiFetch' = "done"
             /\ ~rfiLoading'
             /\ rfiError' # NULL
             /\ rfis' = rfis
    /\ rfiClicks' # rfiClicks
          => /\ rfiClicks' = rfiClicks + 1
             /\ rfiRequests' = rfiRequests + 1
             /\ rfiError' = NULL
             /\ rfiLoading'
    /\ (rfiRequests' # rfiRequests /\ rfiFetch # "mount")
          => rfiClicks' = rfiClicks + 1 /\ rfiError # NULL /\ ~rfiLoading

C4_ExportingWhileInFlight ==
    /\ \A i \in DOMAIN rfiExports : exportingRfiId = <<rfiExports[i].rfi>>
    /\ \A i, j \in DOMAIN rfiExports :
          rfiExports[i].rfi = rfiExports[j].rfi => i = j

(***************************************************************************)
(*                     Claims about the chatbot page                       *)
(***************************************************************************)

\* C1: from the moment handleSendMessage accepts a message until the bot
\* reply for it is appended to messages, no further message is accepted, so
\* at most one accepted send is awaiting its reply and at most one
\* /api/chatbot/stream request is in flight.
C1_SingleSendInFlight == Len(streams) <= 1

C8_StreamRequests == {i \in DOMAIN streams : streams[i].stage \in {"fetch", "read"}}

C8_UserMessages == {i \in DOMAIN messages : messages[i].sender = "user"}

C8_Inv ==
    /\ \A i \in C8_StreamRequests : streams[i].sid # <<>>
    /\ sessionId = <<>> => (streams = <<>> /\ C8_UserMessages = {})

C8_Step ==
    /\ sessionId = <<>> => (streams' = streams /\ C8_UserMessages' = C8_UserMessages)
    /\ chatSends' # chatSends =>
          /\ sessionId # <<>>
          /\ streams'[Len(streams')].stage = "fetch"
          /\ streams'[Len(streams')].sid = sessionId

\* C8: no chatbot request is sent without a session: while sessionId is
\* null handleSendMessage leaves messages unchanged and no stream request
\* is made, and every stream request carries the current non-null
\* sessionId.
C8_NoRequestWithoutSession == []C8_Inv /\ [][C8_Step]_vars

\* The session was replaced by startNewChat; the request in flight carries
\* the session that is current.
C8_Witness ==
    /\ sessionId = <<MaxSessions>>
    /\ C8_StreamRequests # {}
    /\ \A i \in C8_StreamRequests : streams[i].sid = sessionId

\* C10: openSheets never holds two entries with the same sheet id.
C10_NoDuplicateTabs ==
    \A i, j \in DOMAIN openSheets :
        openSheets[i].id = openSheets[j].id => i = j

\* Two fetches for the same sheet were in flight together; the first has
\* added the tab and the second is still to settle, next to another tab.
C10_Witness ==
    /\ Len(openSheets) = MaxSheets
    /\ \E i \in DOMAIN svgFetches : svgFetches[i].id \in OpenIds
    /\ \E i \in DOMAIN streams : streams[i].updates = MaxUpdates

\* The accepted send number n still awaits its reply.
C11_Awaited(n) == \E i \in DOMAIN streams : streams[i].of = n

\* messages holds a bot message that answers send number n.
C11_Replied(n) ==
    \E k \in DOMAIN messages :
        messages[k].sender = "bot" /\ messages[k].of = n

\* C11 (as claimed): every accepted send is eventually followed by its bot
\* message in messages, for every sequence of updates the stream delivers,
\* a 'final' update without a response text included.
C11_EverySendReplied ==
    \A n \in 1..MaxSends : C11_Awaited(n) ~> C11_Replied(n)

\* startNewChat has succeeded and nothing has replaced the conversation
\* since: messages starts with the welcome message of the new session.
C12_Fresh == messages # <<>> /\ messages[1].content = "welcome-new"

\* The sends whose stream was sent in an earlier session.
C12_OldSends == {streams[i].of : i \in {j \in DOMAIN streams : streams[j].sid # sessionId}}

C12_Step ==
    /\ (~C12_Fresh /\ C12_Fresh') =>
          /\ messages' = <<Message("bot", "welcome-new", 0)>>
          /\ openSheets' = <<>>
          /\ sheetColumns' = {}
    /\ (C12_Fresh /\ C12_Fresh') =>
          /\ \A k \in DOMAIN messages' :
                (messages'[k].of \in C12_OldSends /\ messages'[k].sender = "bot")
                   => k \in DOMAIN messages
          /\ \A k \in DOMAIN openSheets' :
                openSheets'[k].id \notin OpenIds =>
                   \E f \in DOMAIN svgFetches :
                       /\ svgFetches[f].id = openSheets'[k].id
                       /\ svgFetches[f].sid = sessionId
          /\ sheetColumns' # sheetColumns =>
                \E i \in DOMAIN streams :
                    /\ streams[i].sid = sessionId
                    /\ i \in DOMAIN streams'
                    /\ streams'[i].updates # streams[i].updates

\* C12 (as claimed): once startNewChat has succeeded, messages is the new
\* welcome message only and openSheets and the overlay maps are empty, and
\* afterwards no reply, sheet or overlay of the previous conversation is
\* added to them.
C12_NewChatClearsOld == [][C12_Step]_vars

\* C14 (as claimed): fetchSheetSvgAndAddTab is called for a sheet only while
\* the sheet is not among the open tabs.
C14_NoFetchOfOpenSheet ==
    [][Len(svgFetches') > Len(svgFetches) =>
          svgFetches'[Len(svgFetches')].id \notin OpenIds]_vars

\* The step processes an 'action' update; the sheet it names is then
\* activeSheetId'.
C13_Acted ==
    /\ toolStatus' = "action"
    /\ \E i \in DOMAIN streams :
          /\ i \in DOMAIN streams'
          /\ streams'[i].updates = streams[i].updates + 1

\* The step adds the sheet named by the last action to the open tabs.
C13_Opened ==
    /\ activeSheetId # <<>>
    /\ activeSheetId' = activeSheetId
    /\ activeSheetId[1] \notin OpenIds
    /\ activeSheetId[1] \in {openSheets'[k].id : k \in DOMAIN openSheets'}

C13_Step ==
    (\/ C13_Acted /\ activeSheetId'[1] \in {openSheets'[k].id : k \in DOMAIN openSheets'}
     \/ C13_Opened)
       => /\ selectedSheet' # <<>>
          /\ selectedSheet'[1].id = activeSheetId'[1]
          /\ CurrentSheet(openSheets', activeTab')[1].id = activeSheetId'[1]

\* C13 (as claimed): after an action naming sheet S has been processed, S is
\* the selected sheet and, once S is among the open tabs, the active tab of
\* the viewer, also when S was already open and is not the last tab.
C13_ActionSheetIsActive == [][C13_Step]_vars

\* C15 (as claimed): the step in which the animation of a zoom action
\* (center_x, center_y, zoom_level) completes leaves the view state of the
\* sheet at scale = zoom_level, translateX = stageWidth/2 - center_x*zoom_level
\* and translateY = stageHeight/2 - center_y*zoom_level, the point centred on
\* the stage, whatever the starting view state and the user's zooms and drags
\* during the animation.
C15_Step ==
    Len(zoomAnimations') < Len(zoomAnimations) =>
        viewState' = CentredView(zoomLast'[1].zoom, stageSize')

C15_ZoomEndsCentred == [][C15_Step]_vars

\* The descriptions of the RFIs that stay in the list are unchanged.
C16_SameDescriptions ==
    \A i \in DOMAIN rfis, j \in DOMAIN rfis' :
        rfis'[j].id = rfis[i].id => rfis'[j].description = rfis[i].description

C16_Inv ==
    /\ Len(rfiSaves) <= 1
    /\ isSavingRfi <=> rfiSaves # <<>>

C16_Step ==
    /\ Len(rfiSaves') > Len(rfiSaves) => ~isSavingRfi
    /\ Len(rfiSaves') < Len(rfiSaves) =>
          /\ ~isSavingRfi'
          /\ IF rfiSaveLast'[1].outcome = "ok"
               THEN /\ editingRfiId' = <<>>
                    /\ rfis' = WithDescription(rfis, rfiSaveLast'[1].save.rfi,
                                               rfiSaveLast'[1].save.description)
               ELSE /\ rfis' = rfis
                    /\ editingRfiId' = editingRfiId
                    /\ editedRfiDescription' = editedRfiDescription
    /\ Len(rfiSaves') >= Len(rfiSaves) => C16_SameDescriptions

\* C16: at most one save of an RFI description is in flight and isSavingRfi
\* is true exactly while it is; a save that ends with a non-OK response or a
\* throw leaves rfis, the open editor and its text as they are, a save that
\* ends with an OK response stores the new description and closes the
\* editor, and no other step changes a description.
C16_OneSaveAtATime == []C16_Inv /\ [][C16_Step]_vars

\* A save of a changed description failed and left the editor open with
\* the edited text, the list unchanged.
C16_Witness ==
    /\ rfiSaveLast # <<>>
    /\ rfiSaveLast[1].outcome # "ok"
    /\ rfiSaves = <<>>
    /\ ~isSavingRfi
    /\ editingRfiId = <<rfiSaveLast[1].save.rfi>>
    /\ editedRfiDescription = <<"new", "more">>
    /\ rfiSaveLast[1].save.description = <<"Title", "new", "more">>
    /\ RfiWithId(1).description = <<"Title", "new">>

====
